---- MODULE Spec2Model ----
(***************************************************************************)
(* Model of the colour core of colors-help (src/mcp/src/color.ts):         *)
(* conversions RGB <-> HSL <-> hex, parseColor, WCAG contrast and          *)
(* generatePalette.                                                        *)
(*                                                                         *)
(* Numbers.  The source computes in IEEE doubles.  The model computes the  *)
(* same expressions on exact rationals, kept as integer numerators over a  *)
(* fixed denominator, and rounds with Round (Math.round: half rounds up).  *)
(* The two differ only where the exact value is k + 1/2 and the double is  *)
(* a hair below it, which moves one rounded result by one.                 *)
(*                                                                         *)
(* Strings are sequences of one-character strings.                         *)
(***************************************************************************)
EXTENDS Integers, Sequences, FiniteSets, TLC

VARIABLES fn, arg, ret

vars == <<fn, arg, ret>>

\* the value of ret before any function has returned
Nil == [nil |-> TRUE]

----------------------------------------------------------------------------
\* Arithmetic helpers

Abs(x) == IF x < 0 THEN -x ELSE x

Max2(a, b) == IF a >= b THEN a ELSE b

Min2(a, b) == IF a <= b THEN a ELSE b

Max3(a, b, c) == Max2(a, Max2(b, c))

Min3(a, b, c) == Min2(a, Min2(b, c))

\* Math.floor(n / d) for d > 0
RoundDown(n, d) == n \div d

\* Math.round(n / d) for d > 0: the nearest integer, a half rounding up
Round(n, d) == (2 * n + d) \div (2 * d)

----------------------------------------------------------------------------
\* hslToRgb (color.ts 22-42).  With s, l in percent and h in degrees:
\*   c = (100 - |2l - 100|) * s / 10^4
\*   x = c * (60 - |h mod 120 - 60|) / 60
\*   m = l / 100 - c / 2
\* all three are brought to the denominator HslDen = 1 200 000.

HslDen == 1200000

ChromaC(s, l) == (100 - Abs(2 * l - 100)) * s

hslToRgb(hsl) ==
    LET C == ChromaC(hsl.s, hsl.l)
        c == 120 * C
        x == 2 * C * (60 - Abs((hsl.h % 120) - 60))
        m == 12000 * hsl.l - 60 * C
        h == hsl.h
        t == IF h < 60 THEN <<c, x, 0>>
             ELSE IF h < 120 THEN <<x, c, 0>>
             ELSE IF h < 180 THEN <<0, c, x>>
             ELSE IF h < 240 THEN <<0, x, c>>
             ELSE IF h < 300 THEN <<x, 0, c>>
             ELSE <<c, 0, x>>
    IN  [r |-> Round((t[1] + m) * 255, HslDen),
         g |-> Round((t[2] + m) * 255, HslDen),
         b |-> Round((t[3] + m) * 255, HslDen)]

\* rgbToHsl with Math.floor in the place of Math.round
rgbToHslTruncating(rgb) ==
    LET max == Max3(rgb.r, rgb.g, rgb.b)
        min == Min3(rgb.r, rgb.g, rgb.b)
        d   == max - min
        sum == max + min
        l   == RoundDown(100 * sum, 510)
        s   == IF sum > 255 THEN RoundDown(100 * d, 510 - sum) ELSE RoundDown(100 * d, sum)
        h   == IF max = rgb.r
                 THEN RoundDown(60 * (rgb.g - rgb.b) + (IF rgb.g < rgb.b THEN 360 * d ELSE 0), d)
               ELSE IF max = rgb.g
                 THEN RoundDown(60 * (rgb.b - rgb.r) + 120 * d, d)
               ELSE RoundDown(60 * (rgb.r - rgb.g) + 240 * d, d)
    IN  IF d = 0 THEN [h |-> 0, s |-> 0, l |-> l]
        ELSE [h |-> h, s |-> s, l |-> l]

\* rgbToHsl (color.ts 44-62).  With max, min, d in 1/255 units:
\*   l = (max + min) / 510,  s = d / (max + min) or d / (510 - max - min),
\*   h = 60 * ((g - b) / d + 6 or 0), 60 * ((b - r) / d + 2), 60 * ((r - g) / d + 4)
rgbToHsl(rgb) ==
    LET max == Max3(rgb.r, rgb.g, rgb.b)
        min == Min3(rgb.r, rgb.g, rgb.b)
        d   == max - min
        sum == max + min
        l   == Round(100 * sum, 510)
        s   == IF sum > 255 THEN Round(100 * d, 510 - sum) ELSE Round(100 * d, sum)
        h   == IF max = rgb.r
                 THEN Round(60 * (rgb.g - rgb.b) + (IF rgb.g < rgb.b THEN 360 * d ELSE 0), d)
               ELSE IF max = rgb.g
                 THEN Round(60 * (rgb.b - rgb.r) + 120 * d, d)
               ELSE Round(60 * (rgb.r - rgb.g) + 240 * d, d)
    IN  IF d = 0 THEN [h |-> 0, s |-> 0, l |-> l]
        ELSE [h |-> h, s |-> s, l |-> l]

----------------------------------------------------------------------------
\* Hex strings

HexLower == <<"0", "1", "2", "3", "4", "5", "6", "7",
              "8", "9", "a", "b", "c", "d", "e", "f">>

HexUpper == <<"0", "1", "2", "3", "4", "5", "6", "7",
              "8", "9", "A", "B", "C", "D", "E", "F">>

IsHexDigit(ch) == \E i \in 1..16 : HexLower[i] = ch \/ HexUpper[i] = ch

HexVal(ch) == (CHOOSE i \in 1..16 : HexLower[i] = ch \/ HexUpper[i] = ch) - 1

\* String.prototype.toLowerCase on the characters a hex string can hold
toLowerCase(s) ==
    [i \in 1..Len(s) |->
        IF \E k \in 11..16 : HexUpper[k] = s[i]
        THEN HexLower[CHOOSE k \in 11..16 : HexUpper[k] = s[i]]
        ELSE s[i]]

\* Number.prototype.toString(16) of an integer n >= 0
RECURSIVE toString16(_)
toString16(n) ==
    IF n < 16 THEN <<HexLower[n + 1]>>
    ELSE toString16(n \div 16) \o <<HexLower[(n % 16) + 1]>>

\* String.prototype.padStart(len, ch)
RECURSIVE padStart(_, _, _)
padStart(s, len, ch) == IF Len(s) >= len THEN s ELSE padStart(<<ch>> \o s, len, ch)

\* toHex without its padStart
toHexUnpadded(n) == toString16(n)

\* toHex of rgbToHex (color.ts 65)

toHex(n) == padStart(toString16(n), 2, "0")

\* rgbToHex (color.ts 64-67)
rgbToHex(rgb) == <<"#">> \o toHex(rgb.r) \o toHex(rgb.g) \o toHex(rgb.b)

\* String.prototype.slice(from, to) with 0 <= from <= to (0-based, to exclusive)
slice(s, from, to) == SubSeq(s, from + 1, Min2(to, Len(s)))

\* String.prototype.replace('#', ''): drops the first '#'
removeHash(s) ==
    IF \E i \in 1..Len(s) : s[i] = "#"
    THEN LET i == CHOOSE i \in 1..Len(s) : s[i] = "#" /\ \A j \in 1..(i - 1) : s[j] # "#"
         IN  SubSeq(s, 1, i - 1) \o SubSeq(s, i + 1, Len(s))
    ELSE s

\* parseInt's result on a string with no leading hex digit
NaN == -1

\* parseInt(s, 16) on a slice of a hex string: the value of the longest
\* prefix of hex digits, NaN when there is none
RECURSIVE parseHexPrefix(_, _, _)
parseHexPrefix(s, i, acc) ==
    IF i > Len(s) \/ ~IsHexDigit(s[i]) THEN acc
    ELSE parseHexPrefix(s, i + 1, 16 * acc + HexVal(s[i]))

parseInt16(s) ==
    IF Len(s) = 0 \/ ~IsHexDigit(s[1]) THEN NaN ELSE parseHexPrefix(s, 1, 0)

\* hexToRgb (color.ts 69-76)
hexToRgb(hex) ==
    LET clean == removeHash(hex)
    IN  [r |-> parseInt16(slice(clean, 0, 2)),
         g |-> parseInt16(slice(clean, 2, 4)),
         b |-> parseInt16(slice(clean, 4, 6))]

\* hslToHex, hexToHsl (color.ts 78-84)
hslToHex(hsl) == rgbToHex(hslToRgb(hsl))

hexToHsl(hex) == rgbToHsl(hexToRgb(hex))

\* CanonicalHex: '#' and six lowercase hex digits
IsCanonicalHex(s) ==
    /\ Len(s) = 7
    /\ s[1] = "#"
    /\ \A i \in 2..7 : \E k \in 1..16 : HexLower[k] = s[i]

----------------------------------------------------------------------------
\* The codec under test: an RGB triple is converted to HSL and back, and to
\* hex and back.

\* channel values tried: every ChanStep-th value and the values at both ends
ChanStep == 8

EdgeChannels == {1, 2, 3, 127, 128, 228, 230, 253, 254, 255}

Channels == {c \in 0..255 : c % ChanStep = 0} \cup EdgeChannels

RGBColor == [r : Channels, g : Channels, b : Channels]

InitCodec ==
    /\ fn = "input"
    /\ arg \in RGBColor
    /\ ret = Nil

\* hsl = rgbToHsl(rgb)
CallRgbToHsl ==
    /\ fn = "input"
    /\ fn' = "rgbToHsl"
    /\ ret' = rgbToHsl(arg)
    /\ UNCHANGED arg

\* hslToRgb(rgbToHsl(rgb)): ret holds the HSL colour of arg
CallHslToRgb ==
    /\ fn = "rgbToHsl"
    /\ fn' = "hslToRgb"
    /\ ret' = hslToRgb(ret)
    /\ UNCHANGED arg

\* hex = rgbToHex(rgb)
CallRgbToHex ==
    /\ fn = "input"
    /\ fn' = "rgbToHex"
    /\ ret' = rgbToHex(arg)
    /\ UNCHANGED arg

\* hexToRgb(rgbToHex(rgb)): ret holds the hex string of arg
CallHexToRgb ==
    /\ fn = "rgbToHex"
    /\ fn' = "hexToRgb"
    /\ ret' = hexToRgb(ret)
    /\ UNCHANGED arg

NextCodec ==
    \/ CallRgbToHsl
    \/ CallHslToRgb
    \/ CallRgbToHex
    \/ CallHexToRgb

SpecCodec == InitCodec /\ [][NextCodec]_vars

ChannelDiff(p, q) == Max3(Abs(p.r - q.r), Abs(p.g - q.g), Abs(p.b - q.b))

\* C1 (as stated): hslToRgb(rgbToHsl(rgb)) is within 1 of rgb in every channel.
C1_RoundTripWithin1 ==
    fn = "hslToRgb" => ChannelDiff(ret, arg) <= 1

\* C1 (amended): hslToRgb(rgbToHsl(rgb)) is within 5 of rgb in every channel;
\* the integer hue, saturation and lightness in between lose that much.
C1_RoundTripWithin5 ==
    fn = "hslToRgb" => ChannelDiff(ret, arg) <= 5

\* C1 witness: a round trip that is off by the full 5 (rgb(0, 228, 230) style).
C1_Witness ==
    /\ fn = "hslToRgb"
    /\ ChannelDiff(ret, arg) = 5

\* C2: rgbToHsl returns an integer hue in [0,360), never 360, integer
\* saturation and lightness in [0,100], and hue 0 and saturation 0 when the
\* largest and the smallest channel are equal.
C2_HslRange ==
    fn = "rgbToHsl" =>
        /\ ret.h \in 0..359
        /\ ret.s \in 0..100
        /\ ret.l \in 0..100
        /\ (Max3(arg.r, arg.g, arg.b) = Min3(arg.r, arg.g, arg.b)
              => ret.h = 0 /\ ret.s = 0)

\* C3: hexToRgb(rgbToHex(rgb)) = rgb, and rgbToHex(rgb) is '#' and six
\* lowercase hex digits, two per channel.
C3_HexRoundTrip ==
    /\ fn = "rgbToHex" =>
          /\ IsCanonicalHex(ret)
          /\ 16 * HexVal(ret[2]) + HexVal(ret[3]) = arg.r
          /\ 16 * HexVal(ret[4]) + HexVal(ret[5]) = arg.g
          /\ 16 * HexVal(ret[6]) + HexVal(ret[7]) = arg.b
    /\ fn = "hexToRgb" => ret = arg

\* C3 witness: a round trip through hex of a colour whose channels need
\* zero padding and differ from each other.
C3_Witness ==
    /\ fn = "hexToRgb"
    /\ arg = [r |-> 8, g |-> 255, b |-> 0]
    /\ ret = arg

----------------------------------------------------------------------------
\* parseColor (color.ts 100-134).  The three regular expressions are matched
\* by scanners that return the position after what they matched, or NoMatch.
\* The character classes \s, \d, ',', '%' and ')' are disjoint, so a greedy
\* scan matches exactly when the regular expression does.

Digits == <<"0", "1", "2", "3", "4", "5", "6", "7", "8", "9">>

IsDigit(ch) == \E i \in 1..10 : Digits[i] = ch

DigitVal(ch) == (CHOOSE i \in 1..10 : Digits[i] = ch) - 1

\* the whitespace characters tried, all in \s and all removed by trim()
IsSpace(ch) == ch \in {" ", "\t", "\n"}

RECURSIVE trimStart(_)
trimStart(s) ==
    IF Len(s) > 0 /\ IsSpace(s[1]) THEN trimStart(Tail(s)) ELSE s

RECURSIVE trimEnd(_)
trimEnd(s) ==
    IF Len(s) > 0 /\ IsSpace(s[Len(s)]) THEN trimEnd(SubSeq(s, 1, Len(s) - 1)) ELSE s

trim(s) == trimEnd(trimStart(s))

NoMatch == 0

\* \s* from position i
RECURSIVE skipWs(_, _)
skipWs(s, i) ==
    IF i = NoMatch THEN NoMatch
    ELSE IF i <= Len(s) /\ IsSpace(s[i]) THEN skipWs(s, i + 1)
    ELSE i

\* a literal character at position i
expect(s, i, ch) ==
    IF i # NoMatch /\ i <= Len(s) /\ s[i] = ch THEN i + 1 ELSE NoMatch

\* a letter at position i under the i flag
expectCI(s, i, lower, upper) ==
    IF i # NoMatch /\ i <= Len(s) /\ s[i] \in {lower, upper} THEN i + 1 ELSE NoMatch

\* %? at position i
optPercent(s, i) ==
    IF i # NoMatch /\ i <= Len(s) /\ s[i] = "%" THEN i + 1 ELSE i

\* \d{1,max} from position i, greedy
digitsUpTo(s, i, max) ==
    IF i = NoMatch \/ i > Len(s) \/ ~IsDigit(s[i]) THEN NoMatch
    ELSE LET n == CHOOSE k \in 1..max :
                    /\ \A j \in 0..(k - 1) : i + j <= Len(s) /\ IsDigit(s[i + j])
                    /\ (k = max \/ i + k > Len(s) \/ ~IsDigit(s[i + k]))
         IN  i + n

\* \d{1,4} in the place of \d{1,3}
digits14(s, i) == digitsUpTo(s, i, 4)

\* \d{1,3}
digits13(s, i) == digitsUpTo(s, i, 3)

\* the unary + on a captured string of digits
RECURSIVE toNumberFrom(_, _, _)
toNumberFrom(s, i, acc) ==
    IF i > Len(s) THEN acc ELSE toNumberFrom(s, i + 1, 10 * acc + DigitVal(s[i]))

toNumber(s) == toNumberFrom(s, 1, 0)

\* /^#?([0-9a-fA-F]{3}|[0-9a-fA-F]{6})$/: the capture, or <<>> when no match
hexMatch(s) ==
    LET body == IF Len(s) > 0 /\ s[1] = "#" THEN Tail(s) ELSE s
    IN  IF Len(body) \in {3, 6} /\ \A i \in 1..Len(body) : IsHexDigit(body[i])
        THEN body ELSE <<>>

\* the positions of a match of  name\(\s*(\d{1,3})\s*,\s*(\d{1,3})P\s*,\s*(\d{1,3})P\s*\)$
\* where P is %? when pct and empty otherwise; name is three letters
funcMatch(s, name, pct) ==
    LET p1 == expectCI(s, 1, name[1][1], name[1][2])
        p2 == expectCI(s, p1, name[2][1], name[2][2])
        p3 == expectCI(s, p2, name[3][1], name[3][2])
        a1 == skipWs(s, expect(s, p3, "("))
        a2 == digits13(s, a1)
        b1 == skipWs(s, expect(s, skipWs(s, a2), ","))
        b2 == digits13(s, b1)
        b3 == IF pct THEN optPercent(s, b2) ELSE b2
        c1 == skipWs(s, expect(s, skipWs(s, b3), ","))
        c2 == digits13(s, c1)
        c3 == IF pct THEN optPercent(s, c2) ELSE c2
        e  == expect(s, skipWs(s, c3), ")")
    IN  IF e # NoMatch /\ e = Len(s) + 1
        THEN <<SubSeq(s, a1, a2 - 1), SubSeq(s, b1, b2 - 1), SubSeq(s, c1, c2 - 1)>>
        ELSE <<>>

\* /^rgb\(\s*(\d{1,3})\s*,\s*(\d{1,3})\s*,\s*(\d{1,3})\s*\)$/i
rgbMatch(s) == funcMatch(s, <<<<"r", "R">>, <<"g", "G">>, <<"b", "B">>>>, FALSE)

\* /^hsl\(\s*(\d{1,3})\s*,\s*(\d{1,3})%?\s*,\s*(\d{1,3})%?\s*\)$/i
hslMatch(s) == funcMatch(s, <<<<"h", "H">>, <<"s", "S">>, <<"l", "L">>>>, TRUE)

\* the formats the error message of parseColor lists (color.ts 132)
AcceptedFormats ==
    << <<"#", "6", "C", "5", "C", "E", "7">>,
       <<"6", "C", "5", "C", "E", "7">>,
       <<"#", "6", "C", "E">>,
       <<"r", "g", "b", "(", "1", "0", "8", ",", "9", "2", ",", "2", "3", "1", ")">>,
       <<"h", "s", "l", "(", "2", "4", "9", ",", "7", "5", "%", ",", "6", "3", "%", ")">> >>

\* a returned value, and a thrown Error with its message
Return(v) == [threw |-> FALSE, value |-> v]

Throw(input) == [threw |-> TRUE, message |-> [input |-> input, formats |-> AcceptedFormats]]

\* the capture left as matched, without the 3-digit expansion
expand3Skipped(hex) == hex

\* the 3-digit expansion, color.ts 107-109
expand3(hex) ==
    IF Len(hex) = 3
    THEN <<hex[1], hex[1], hex[2], hex[2], hex[3], hex[3]>>
    ELSE hex

\* parseColor without its Math.min caps
parseColorNoClamp(input) ==
    LET s   == trim(input)
        hex == hexMatch(s)
        rgb == rgbMatch(s)
        hsl == hslMatch(s)
    IN  IF hex # <<>> THEN Return(<<"#">> \o toLowerCase(expand3(hex)))
        ELSE IF rgb # <<>>
          THEN Return(rgbToHex([r |-> toNumber(rgb[1]),
                                g |-> toNumber(rgb[2]),
                                b |-> toNumber(rgb[3])]))
        ELSE IF hsl # <<>>
          THEN Return(hslToHex([h |-> toNumber(hsl[1]),
                                s |-> toNumber(hsl[2]),
                                l |-> toNumber(hsl[3])]))
        ELSE Throw(input)

parseColor(input) ==
    LET s   == trim(input)
        hex == hexMatch(s)
        rgb == rgbMatch(s)
        hsl == hslMatch(s)
    IN  IF hex # <<>> THEN Return(<<"#">> \o toLowerCase(expand3(hex)))
        ELSE IF rgb # <<>>
          THEN Return(rgbToHex([r |-> Min2(255, toNumber(rgb[1])),
                                g |-> Min2(255, toNumber(rgb[2])),
                                b |-> Min2(255, toNumber(rgb[3]))]))
        ELSE IF hsl # <<>>
          THEN Return(hslToHex([h |-> Min2(360, toNumber(hsl[1])),
                                s |-> Min2(100, toNumber(hsl[2])),
                                l |-> Min2(100, toNumber(hsl[3]))]))
        ELSE Throw(input)

----------------------------------------------------------------------------
\* The parser under test.  An input text is described by how it is written
\* (arg) and Render gives its characters.

\* Number.prototype.toString() of an integer
RECURSIVE DecNat(_)
DecNat(n) ==
    IF n < 10 THEN <<Digits[n + 1]>>
    ELSE DecNat(n \div 10) \o <<Digits[(n % 10) + 1]>>

Dec(n) == IF n < 0 THEN <<"-">> \o DecNat(-n) ELSE DecNat(n)

RECURSIVE Pow10(_)
Pow10(k) == IF k = 0 THEN 1 ELSE 10 * Pow10(k - 1)

\* hex bodies of every length up to MaxHexLen over two letters, and every
\* 3-character body over HexSampleChars ("g" is no hex digit)
MaxHexLen == 7

HexSampleChars == {"0", "6", "c", "C", "E", "f", "g"}

HexBodies ==
    UNION {[1..n -> {"a", "F"}] : n \in 1..MaxHexLen} \cup [1..3 -> HexSampleChars]

\* numbers written in rgb(...) and hsl(...): the caps, their successors, a
\* negative number and the largest number of each length up to MaxDigits
MaxDigits == 4

NumSamples ==
    {-1, 0, 100, 101, 255, 256, 360, 361} \cup {Pow10(k) - 1 : k \in 3..MaxDigits}

FuncNames ==
    { <<"r", "g", "b">>, <<"R", "g", "B">>, <<"h", "s", "l">>, <<"H", "S", "l">>,
      <<"r", "g", "b", "a">>, <<"h", "s", "l", "a">> }

PctPatterns ==
    { <<FALSE, FALSE, FALSE>>, <<FALSE, TRUE, TRUE>>,
      <<FALSE, TRUE, FALSE>>, <<TRUE, TRUE, TRUE>> }

Words ==
    { <<"r", "e", "d">>, <<"b", "l", "u", "e">>, <<"t", "a", "n">>,
      <<"n", "o", "t", "-", "a", "-", "c", "o", "l", "o", "r">>, <<>> }

Template(kind, body, hash, fname, nums, pct, sp, pad) ==
    [kind |-> kind, body |-> body, hash |-> hash, fname |-> fname,
     nums |-> nums, pct |-> pct, sp |-> sp, pad |-> pad]

HexInputs ==
    {Template("hex", body, hash, <<>>, <<>>, <<>>, FALSE, pad) :
        body \in HexBodies, hash \in BOOLEAN, pad \in BOOLEAN}

FuncInputs ==
    {Template("func", <<>>, FALSE, fname, nums, pct, sp, pad) :
        fname \in FuncNames, nums \in [1..3 -> NumSamples],
        pct \in PctPatterns, sp \in BOOLEAN, pad \in BOOLEAN}

\* a fourth, alpha, component
AlphaInputs ==
    {Template("func", <<>>, FALSE, fname, <<n, n, n, 1>>,
              <<FALSE, FALSE, FALSE, FALSE>>, sp, FALSE) :
        fname \in FuncNames, n \in {0, 255}, sp \in BOOLEAN}

WordInputs ==
    {Template("word", body, FALSE, <<>>, <<>>, <<>>, FALSE, pad) :
        body \in Words, pad \in BOOLEAN}

ParseInputs == HexInputs \cup FuncInputs \cup AlphaInputs \cup WordInputs

\* the text of a returned hex string, given to parseColor again
Canonical(hex) == Template("canonical", hex, FALSE, <<>>, <<>>, <<>>, FALSE, FALSE)

Token(t, i) == Dec(t.nums[i]) \o (IF t.pct[i] THEN <<"%">> ELSE <<>>)

RECURSIVE Tokens(_, _)
Tokens(t, i) ==
    IF i > Len(t.nums) THEN <<>>
    ELSE (IF i = 1 THEN <<>> ELSE IF t.sp THEN <<" ", ",", " ">> ELSE <<",">>)
         \o Token(t, i) \o Tokens(t, i + 1)

Render(t) ==
    LET inner == IF t.kind = "func"
                 THEN t.fname \o <<"(">> \o (IF t.sp THEN <<" ">> ELSE <<>>)
                      \o Tokens(t, 1) \o (IF t.sp THEN <<"\t">> ELSE <<>>) \o <<")">>
                 ELSE (IF t.hash THEN <<"#">> ELSE <<>>) \o t.body
    IN  IF t.pad THEN <<" ", "\t">> \o inner \o <<" ", "\n">> ELSE inner

InitParse ==
    /\ fn = "input"
    /\ arg \in ParseInputs
    /\ ret = Nil

\* parseColor(text)
CallParseColor ==
    /\ fn = "input"
    /\ fn' = "parseColor"
    /\ ret' = parseColor(Render(arg))
    /\ UNCHANGED arg

\* parseColor(parseColor(text)): the returned hex is parsed again
CallParseColorAgain ==
    /\ fn = "parseColor"
    /\ ~ret.threw
    /\ fn' = "parseColorAgain"
    /\ arg' = Canonical(ret.value)
    /\ ret' = parseColor(Render(arg'))

NextParse ==
    \/ CallParseColor
    \/ CallParseColorAgain

SpecParse == InitParse /\ [][NextParse]_vars

\* The grammar of section 4.2, read off the way the input is written.
IsRgbName(fname) == Len(fname) = 3 /\ fname[1] \in {"r", "R"} /\ fname[2] \in {"g", "G"} /\ fname[3] \in {"b", "B"}

IsHslName(fname) == Len(fname) = 3 /\ fname[1] \in {"h", "H"} /\ fname[2] \in {"s", "S"} /\ fname[3] \in {"l", "L"}

OneToThreeDigits(t) == \A i \in 1..Len(t.nums) : t.nums[i] \in 0..999

InGrammar(t) ==
    \/ /\ t.kind = "hex"
       /\ Len(t.body) \in {3, 6}
       /\ \A i \in 1..Len(t.body) :
            t.body[i] \in {"0", "1", "2", "3", "4", "5", "6", "7", "8", "9",
                           "a", "b", "c", "d", "e", "f", "A", "B", "C", "D", "E", "F"}
    \/ /\ t.kind = "func"
       /\ IsRgbName(t.fname)
       /\ Len(t.nums) = 3
       /\ OneToThreeDigits(t)
       /\ \A i \in 1..3 : ~t.pct[i]
    \/ /\ t.kind = "func"
       /\ IsHslName(t.fname)
       /\ Len(t.nums) = 3
       /\ OneToThreeDigits(t)
       /\ ~t.pct[1]

\* C4: a successful parseColor returns '#' and six lowercase hex digits, a
\* 3-digit hex input has each digit doubled, and parsing the result again
\* returns the same string.
C4_CanonicalOutput ==
    /\ (fn = "parseColor" /\ ~ret.threw) =>
          /\ IsCanonicalHex(ret.value)
          /\ (arg.kind = "hex" /\ Len(arg.body) = 3) =>
                \A i \in 1..3 :
                    /\ ret.value[2 * i] = ret.value[2 * i + 1]
                    /\ HexVal(ret.value[2 * i]) = HexVal(arg.body[i])
    /\ fn = "parseColorAgain" => ret = Return(arg.body)

\* C4 witness: "#66ccee", parsed from the 3-digit form, parses to itself.
C4_Witness ==
    /\ fn = "parseColorAgain"
    /\ arg.body = <<"#", "6", "6", "c", "c", "e", "e">>
    /\ ret = Return(arg.body)

\* the cap of the i-th number of rgb(...) or hsl(...)
Cap(t, i) == IF IsRgbName(t.fname) THEN 255 ELSE <<360, 100, 100>>[i]

Capped(t) == [t EXCEPT !.nums = [i \in 1..Len(t.nums) |-> Min2(Cap(t, i), t.nums[i])]]

\* an rgb(...) or hsl(...) text, well formed but for the size of its
\* numbers, at least one of which is over its cap
OverRange(t) ==
    /\ t.kind = "func"
    /\ IsRgbName(t.fname) \/ IsHslName(t.fname)
    /\ Len(t.nums) = 3
    /\ \A i \in 1..3 : t.nums[i] >= 0
    /\ ~t.pct[1] /\ (IsRgbName(t.fname) => ~t.pct[2] /\ ~t.pct[3])
    /\ \E i \in 1..3 : t.nums[i] > Cap(t, i)

\* C5 (as stated): over-range numbers in rgb(...) and hsl(...) are clamped
\* rather than rejected; the result is that of the text with every over-range
\* number replaced by its cap.
C5_ClampedNotRejected ==
    (fn = "parseColor" /\ OverRange(arg)) =>
        /\ ~ret.threw
        /\ ret = parseColor(Render(Capped(arg)))

\* C5 (amended): over-range numbers of one to three digits are clamped, the
\* result being that of the text with each replaced by its cap; a text with a
\* number of four or more digits is rejected.
C5_ClampedUpTo3Digits ==
    (fn = "parseColor" /\ OverRange(arg)) =>
        IF OneToThreeDigits(arg)
        THEN /\ ~ret.threw
             /\ ret = parseColor(Render(Capped(arg)))
        ELSE ret.threw

\* C5 witness: hsl(999, 361%, 101%) parsed as hsl(360, 100%, 100%), white.
C5_Witness ==
    /\ fn = "parseColor"
    /\ IsHslName(arg.fname)
    /\ arg.nums = <<999, 361, 101>>
    /\ OverRange(arg)
    /\ ret = Return(<<"#", "f", "f", "f", "f", "f", "f">>)

\* C6: parseColor throws exactly when the trimmed input is in none of the
\* three grammars; a negative number, an alpha component and a colour name
\* make it throw; the message lists the accepted formats, each of which
\* parses.
C6_ParseError ==
    fn = "parseColor" =>
        /\ ret.threw <=> ~InGrammar(arg)
        /\ (arg.kind = "func" /\ \E i \in 1..Len(arg.nums) : arg.nums[i] < 0) => ret.threw
        /\ (arg.kind = "func" /\ (Len(arg.nums) = 4 \/ Len(arg.fname) = 4)) => ret.threw
        /\ arg.kind = "word" => ret.threw
        /\ ret.threw =>
              /\ ret.message.input = Render(arg)
              /\ Len(ret.message.formats) = 5
              /\ \A i \in 1..5 : ~parseColor(ret.message.formats[i]).threw
              /\ \E i \in 1..5 : hexMatch(ret.message.formats[i]) # <<>>
              /\ \E i \in 1..5 : rgbMatch(ret.message.formats[i]) # <<>>
              /\ \E i \in 1..5 : hslMatch(ret.message.formats[i]) # <<>>

\* C6 witness: rgb(-1, 0, 0) throws.
C6_Witness ==
    /\ fn = "parseColor"
    /\ arg.kind = "func"
    /\ IsRgbName(arg.fname)
    /\ arg.nums = <<-1, 0, 0>>
    /\ ret.threw

----------------------------------------------------------------------------
\* WCAG contrast (color.ts 147-187).  A linearized channel is kept in units of
\* 1 / LinScale, a luminance in units of 1 / (10^4 * LinScale) = 10^-9, and a
\* contrast ratio as the exact fraction num / den of two such numbers.  The
\* power law is tabulated to the nearest 1 / LinScale, so a luminance is
\* that of the source to about 10^-5; comparisons of ratios are exact on the
\* tabulated values.

LinScale == 100000

\* round(LinScale * ((c / 255 + 0.055) / 1.055) ^ 2.4) for c = 11 .. 255
GammaExpanded ==
    <<
       335, 368, 402, 439, 478, 518, 561, 605, 651, 700,
       750, 802, 857, 913, 972, 1033, 1096, 1161, 1229, 1298,
       1370, 1444, 1521, 1600, 1681, 1764, 1850, 1938, 2029, 2122,
       2217, 2315, 2416, 2519, 2624, 2732, 2843, 2956, 3071, 3190,
       3310, 3434, 3560, 3689, 3820, 3955, 4092, 4231, 4374, 4519,
       4667, 4817, 4971, 5127, 5286, 5448, 5613, 5781, 5951, 6125,
       6301, 6480, 6663, 6848, 7036, 7227, 7421, 7619, 7819, 8022,
       8228, 8438, 8650, 8866, 9084, 9306, 9531, 9759, 9990, 10224,
       10462, 10702, 10946, 11193, 11444, 11697, 11954, 12214, 12477, 12744,
       13014, 13287, 13563, 13843, 14126, 14413, 14703, 14996, 15293, 15593,
       15896, 16203, 16513, 16827, 17144, 17465, 17789, 18116, 18447, 18782,
       19120, 19462, 19807, 20156, 20508, 20864, 21223, 21586, 21953, 22323,
       22697, 23074, 23455, 23840, 24228, 24620, 25016, 25415, 25818, 26225,
       26636, 27050, 27468, 27889, 28315, 28744, 29177, 29614, 30054, 30499,
       30947, 31399, 31855, 32314, 32778, 33245, 33716, 34191, 34670, 35153,
       35640, 36131, 36625, 37124, 37626, 38133, 38643, 39157, 39676, 40198,
       40724, 41254, 41789, 42327, 42869, 43415, 43966, 44520, 45079, 45641,
       46208, 46778, 47353, 47932, 48515, 49102, 49693, 50289, 50888, 51492,
       52100, 52712, 53328, 53948, 54572, 55201, 55834, 56471, 57112, 57758,
       58408, 59062, 59720, 60383, 61050, 61721, 62396, 63076, 63760, 64448,
       65141, 65837, 66539, 67244, 67954, 68669, 69387, 70110, 70838, 71569,
       72306, 73046, 73791, 74540, 75294, 76052, 76815, 77582, 78354, 79130,
       79910, 80695, 81485, 82279, 83077, 83880, 84687, 85499, 86316, 87137,
       87962, 88792, 89627, 90466, 91310, 92158, 93011, 93869, 94731, 95597,
       96469, 97345, 98225, 99110, 100000
    >>

\* linearize of relativeLuminance: srgb <= 0.03928 is 100000 * c <= 3928 * 255,
\* and srgb / 12.92 is c / 3294.6
linearize(c) ==
    IF 100000 * c <= 3928 * 255
    THEN Round(c * LinScale * 100, 329460)
    ELSE GammaExpanded[c - 10]

relativeLuminance(rgb) ==
    2126 * linearize(rgb.r) + 7152 * linearize(rgb.g) + 722 * linearize(rgb.b)

\* 0.05 in luminance units
Lum005 == 50000000

\* contrastRatio with (la + 0.05) / (lb + 0.05) in argument order
contrastRatioUnordered(a, b) ==
    [num |-> relativeLuminance(a) + Lum005, den |-> relativeLuminance(b) + Lum005]

contrastRatio(a, b) ==
    LET la == relativeLuminance(a)
        lb == relativeLuminance(b)
        lighter == Max2(la, lb)
        darker == Min2(la, lb)
    IN  [num |-> lighter + Lum005, den |-> darker + Lum005]

\* a / b < c / d for a, c >= 0 and b, d > 0, by continued fractions (the
\* products a * d and b * c do not fit the integers of the checker)
RECURSIVE FracLess(_, _, _, _)
FracLess(a, b, c, d) ==
    LET qa == a \div b
        qc == c \div d
        ra == a % b
        rc == c % d
    IN  IF qa # qc THEN qa < qc
        ELSE IF rc = 0 THEN FALSE
        ELSE IF ra = 0 THEN TRUE
        ELSE FracLess(d, rc, b, ra)

\* ratio >= n / d, ratio > other, ratio = other
RatioGE(ratio, n, d) == ~FracLess(ratio.num, ratio.den, n, d)

RatioGT(ratio, other) == FracLess(other.num, other.den, ratio.num, ratio.den)

RatioEq(ratio, other) == ~RatioGT(ratio, other) /\ ~RatioGT(other, ratio)

\* Number.prototype.toFixed(2): the nearest hundredth, a half rounding up
toFixed2(ratio) ==
    LET q == ratio.num \div ratio.den
        r == ratio.num % ratio.den
        cents == CHOOSE k \in 0..99 :
                    /\ ~FracLess(r, ratio.den, k, 100)
                    /\ FracLess(r, ratio.den, k + 1, 100)
        up == ~FracLess(r, ratio.den, 2 * cents + 1, 200)
        h == 100 * q + cents + (IF up THEN 1 ELSE 0)
    IN  Dec(h \div 100) \o <<".", Digits[((h % 100) \div 10) + 1], Digits[(h % 10) + 1]>>

\* checkContrast with the AAA-normal threshold on aaa_large
checkContrastAaaLarge7(hex1, hex2) ==
    LET ratio == contrastRatio(hexToRgb(hex1), hexToRgb(hex2))
    IN  [ratio |-> toFixed2(ratio),
         aa_normal |-> RatioGE(ratio, 9, 2),
         aa_large |-> RatioGE(ratio, 3, 1),
         aaa_normal |-> RatioGE(ratio, 7, 1),
         aaa_large |-> RatioGE(ratio, 7, 1)]

\* checkContrast (color.ts 171-180)
checkContrast(hex1, hex2) ==
    LET ratio == contrastRatio(hexToRgb(hex1), hexToRgb(hex2))
    IN  [ratio |-> toFixed2(ratio),
         aa_normal |-> RatioGE(ratio, 9, 2),
         aa_large |-> RatioGE(ratio, 3, 1),
         aaa_normal |-> RatioGE(ratio, 7, 1),
         aaa_large |-> RatioGE(ratio, 9, 2)]

White == <<"#", "f", "f", "f", "f", "f", "f">>

Black == <<"#", "0", "0", "0", "0", "0", "0">>

\* textColorForBackground with the two results exchanged
textColorForBackgroundSwapped(hex) ==
    LET rgb == hexToRgb(hex)
        white == [r |-> 255, g |-> 255, b |-> 255]
        black == [r |-> 0, g |-> 0, b |-> 0]
    IN  IF RatioGT(contrastRatio(rgb, white), contrastRatio(rgb, black))
        THEN Black ELSE White

\* textColorForBackground (color.ts 182-187)
textColorForBackground(hex) ==
    LET rgb == hexToRgb(hex)
        white == [r |-> 255, g |-> 255, b |-> 255]
        black == [r |-> 0, g |-> 0, b |-> 0]
    IN  IF RatioGT(contrastRatio(rgb, white), contrastRatio(rgb, black))
        THEN White ELSE Black

----------------------------------------------------------------------------
\* The contrast functions under test, on pairs of canonical hex strings.

\* channel values tried: every ContrastStep-th value, both sides of the
\* 0.03928 threshold (10 and 11) and 255
ContrastStep == 64

ContrastChannels == {c \in 0..255 : c % ContrastStep = 0} \cup {10, 11, 255}

ForegroundHexes ==
    {rgbToHex(c) : c \in [r : ContrastChannels, g : ContrastChannels, b : ContrastChannels]}

BackgroundHexes ==
    {rgbToHex(c) : c \in [r : {0, 128, 255}, g : {0, 128, 255}, b : {0, 128, 255}]}

InitContrast ==
    /\ fn = "input"
    /\ arg \in [a : ForegroundHexes, b : BackgroundHexes]
    /\ ret = Nil

\* contrastRatio(hexToRgb(a), hexToRgb(b))
CallContrastRatio ==
    /\ fn = "input"
    /\ fn' = "contrastRatio"
    /\ ret' = contrastRatio(hexToRgb(arg.a), hexToRgb(arg.b))
    /\ UNCHANGED arg

\* checkContrast(a, b)
CallCheckContrast ==
    /\ fn = "input"
    /\ fn' = "checkContrast"
    /\ ret' = checkContrast(arg.a, arg.b)
    /\ UNCHANGED arg

\* textColorForBackground(a)
CallTextColorForBackground ==
    /\ fn = "input"
    /\ fn' = "textColorForBackground"
    /\ ret' = textColorForBackground(arg.a)
    /\ UNCHANGED arg

NextContrast ==
    \/ CallContrastRatio
    \/ CallCheckContrast
    \/ CallTextColorForBackground

SpecContrast == InitContrast /\ [][NextContrast]_vars

C9_Verdicts ==
    fn = "checkContrast" =>
        LET ratio == contrastRatio(hexToRgb(arg.a), hexToRgb(arg.b))
        IN  /\ ret.aa_normal <=> RatioGE(ratio, 9, 2)
            /\ ret.aa_large <=> RatioGE(ratio, 3, 1)
            /\ ret.aaa_normal <=> RatioGE(ratio, 7, 1)
            /\ ret.aaa_large <=> RatioGE(ratio, 9, 2)
            /\ ret.aaa_normal => ret.aa_normal
            /\ ret.aa_normal => ret.aa_large
            /\ ret.aa_normal = ret.aaa_large

\* C9 witness: a pair that passes AA for normal text and AAA for large text
\* but not AAA for normal text.
C9_Witness ==
    /\ fn = "checkContrast"
    /\ ret.aa_normal /\ ret.aa_large /\ ret.aaa_large
    /\ ~ret.aaa_normal

\* C10: contrastRatio(a, b) = contrastRatio(b, a), it is
\* (max luminance + 0.05) / (min luminance + 0.05), at least 1, and
\* contrastRatio(x, x) = 1.
C10_Symmetric ==
    fn = "contrastRatio" =>
        LET a == hexToRgb(arg.a)
            b == hexToRgb(arg.b)
        IN  /\ ret = contrastRatio(b, a)
            /\ ret.num >= ret.den
            /\ ret.num - Lum005 \in {relativeLuminance(a), relativeLuminance(b)}
            /\ ret.den - Lum005 \in {relativeLuminance(a), relativeLuminance(b)}
            /\ ret.num - ret.den = Abs(relativeLuminance(a) - relativeLuminance(b))
            /\ a = b => ret.num = ret.den

\* C10 witness: a darker first colour against a lighter second one.
C10_Witness ==
    /\ fn = "contrastRatio"
    /\ relativeLuminance(hexToRgb(arg.a)) < relativeLuminance(hexToRgb(arg.b))
    /\ ret.num > ret.den

----------------------------------------------------------------------------
\* generatePalette (color.ts 191-208).  A value of Math.random() is a number
\* of millionths in [0, 1); a hue is kept in millionths of a degree.

RandomUnit == 1000000

\* 0.618033988749895 in millionths
GOLDEN_RATIO_CONJUGATE == 618034

\* String(i + 1) in the place of String(i)
keyOfNext(i) == Dec(i + 1)

\* String(i)
keyOf(i) == Dec(i)

\* locked[key] as a condition: the key is there and its value is not ''
isTruthy(locked, key) == key \in DOMAIN locked /\ locked[key] # <<>>

\* the elements from index i on; hue is the cursor, rnd.slots[i + 1] the two
\* values Math.random() returns for index i
RECURSIVE paletteFrom(_, _, _, _, _)
paletteFrom(i, count, locked, hue, rnd) ==
    IF i >= count THEN <<>>
    ELSE IF isTruthy(locked, keyOf(i))
      THEN <<locked[keyOf(i)]>> \o paletteFrom(i + 1, count, locked, hue, rnd)
    ELSE LET next == (hue + 360 * GOLDEN_RATIO_CONJUGATE) % (360 * RandomUnit)
             s == Round(55 * RandomUnit + rnd.slots[i + 1][1] * 30, RandomUnit)
             l == Round(45 * RandomUnit + rnd.slots[i + 1][2] * 25, RandomUnit)
         IN  <<hslToHex([h |-> Round(next, RandomUnit), s |-> s, l |-> l])>>
             \o paletteFrom(i + 1, count, locked, next, rnd)

generatePalette(count, locked, rnd) ==
    paletteFrom(0, count, locked, rnd.start * 360, rnd)

----------------------------------------------------------------------------
\* The generator under test: generatePalette is called again and again with
\* one count and one lock map.

\* the largest count tried; lock maps have keys "0" .. String(MaxCount)
MaxCount == 3

LockColors == { <<"#", "6", "c", "5", "c", "e", "7">>, <<"#", "0", "0", "c", "e", "c", "9">> }

LockKeys == {keyOf(i) : i \in 0..MaxCount}

LockMaps == UNION {[K -> LockColors] : K \in SUBSET LockKeys}

\* values of Math.random(): for the start hue (0.3815 starts at 137.34
\* degrees, one step below 359.83), and for (s, l) of one slot
StartDraws == {0, 381500, 500000, 999999}

SlotDraws == { <<0, 999999>>, <<999999, 0>>, <<500000, 500000>> }

\* the values drawn in one call: none is drawn for a locked slot
Draws(count, locked) ==
    {rnd \in [start : StartDraws, slots : [1..count -> SlotDraws \cup {<<0, 0>>}]] :
        \A i \in 1..count :
            rnd.slots[i] = <<0, 0>> <=> isTruthy(locked, keyOf(i - 1))}

InitPalette ==
    /\ fn = "input"
    /\ arg \in [count : 0..MaxCount, locked : LockMaps]
    /\ ret = Nil

\* generatePalette(count, locked)
CallGeneratePalette ==
    /\ fn \in {"input", "generatePalette"}
    /\ \E rnd \in Draws(arg.count, arg.locked) :
          ret' = generatePalette(arg.count, arg.locked, rnd)
    /\ fn' = "generatePalette"
    /\ UNCHANGED arg

NextPalette == CallGeneratePalette

SpecPalette == InitPalette /\ [][NextPalette]_vars

\* C7: every call of generatePalette(count, locked) returns count elements
\* with the value of locked[String(i)] at every position i < count that has
\* one, and these positions hold the same value as after the call before.
C7_LockedSlotsKept ==
    [][ fn' = "generatePalette" =>
          /\ Len(ret') = arg'.count
          /\ \A i \in 0..(arg'.count - 1) :
                Dec(i) \in DOMAIN arg'.locked =>
                    /\ ret'[i + 1] = arg'.locked[Dec(i)]
                    /\ (fn = "generatePalette" /\ arg = arg') => ret'[i + 1] = ret[i + 1]
      ]_vars

\* C7 witness: a palette of three with slots 0 and 2 locked and slot 1
\* generated.
C7_Witness ==
    /\ fn = "generatePalette"
    /\ arg.count = 3
    /\ DOMAIN arg.locked = {Dec(0), Dec(2)}
    /\ Len(ret) = 3
    /\ ret[1] = arg.locked[Dec(0)]
    /\ ret[3] = arg.locked[Dec(2)]
    /\ ret[2] \notin LockColors

----------------------------------------------------------------------------
\* The tool-call handler of the server (index.ts).  A request is a record
\* [name, args]; args is a record that has a field only for an argument the
\* caller supplied.  A response is the record built by ok or by err.

formatRgb(rgb) ==
    <<"r", "g", "b", "(">> \o Dec(rgb.r) \o <<",", " ">> \o Dec(rgb.g)
        \o <<",", " ">> \o Dec(rgb.b) \o <<")">>

formatHsl(hsl) ==
    <<"h", "s", "l", "(">> \o Dec(hsl.h) \o <<",", " ">> \o Dec(hsl.s)
        \o <<"%", ",", " ">> \o Dec(hsl.l) \o <<"%", ")">>

colorInfo(hex) ==
    [hex |-> hex, rgb |-> formatRgb(hexToRgb(hex)), hsl |-> formatHsl(hexToHsl(hex))]

\* the response of ok(data): no isError field is set
ok(data) == [isError |-> FALSE, data |-> data]

\* the response of err(message)
err(message) == [isError |-> TRUE, error |-> message]

\* args?.key is not undefined
Has(args, key) == key \in DOMAIN args

\* the TypeError of input.trim() when input is undefined
TypeErrorTrim ==
    [threw |-> TRUE,
     message |-> [typeError |-> "Cannot read properties of undefined (reading 'trim')"]]

\* parseColor(args?.key as string)
parseArg(args, key) ==
    IF Has(args, key) THEN parseColor(args[key]) ELSE TypeErrorTrim

\* a count argument is a number of halves: 5 stands for 2.5
CountUnit == 2

\* Math.min(8, Math.max(2, args?.count ?? 5))
clampCount(args) ==
    Min2(8 * CountUnit,
         Max2(2 * CountUnit, IF Has(args, "count") THEN args.count ELSE 5 * CountUnit))

\* ToLength of Array.from({ length: count }): the integer part
toLength(count) == count \div CountUnit

\* the largest key of a lock map that is tried
MaxLockKey == 9

\* Object.entries(obj): the integer keys in ascending order
entries(obj) ==
    SelectSeq([i \in 1..(MaxLockKey + 1) |-> keyOf(i - 1)], LAMBDA k : k \in DOMAIN obj)

\* the loop leaving out every value that does not parse
RECURSIVE parseEntriesSkipping(_, _, _)
entrySkipped(raw, keys, locked, parsed) ==
    IF parsed.threw THEN parseEntriesSkipping(raw, Tail(keys), locked)
    ELSE parseEntriesSkipping(raw, Tail(keys), (Head(keys) :> parsed.value) @@ locked)

parseEntriesSkipping(raw, keys, locked) ==
    IF keys = <<>> THEN Return(locked)
    ELSE entrySkipped(raw, keys, locked, parseColor(raw[Head(keys)]))

\* the loop of index.ts 173-175: every value of the raw lock map is parsed,
\* and the first one that fails throws
RECURSIVE parseEntries(_, _, _)
entryParsed(raw, keys, locked, parsed) ==
    IF parsed.threw THEN parsed
    ELSE parseEntries(raw, Tail(keys), (Head(keys) :> parsed.value) @@ locked)

parseEntries(raw, keys, locked) ==
    IF keys = <<>> THEN Return(locked)
    ELSE entryParsed(raw, keys, locked, parseColor(raw[Head(keys)]))

\* the lock map parsed, or the exception of the first value that fails
parseLocked(rawLocked) == parseEntries(rawLocked, entries(rawLocked), <<>>)

\* hexes.map((hex, i) => ({ position, locked, ...colorInfo(hex) }))
paletteColors(hexes, locked) ==
    [i \in 1..Len(hexes) |->
        [position |-> i - 1, locked |-> keyOf(i - 1) \in DOMAIN locked]
            @@ colorInfo(hexes[i])]

\* index.ts 177-184, once every lock value has parsed
paletteResponse(count, locked, rnd) ==
    ok([count |-> count,
        colors |-> paletteColors(generatePalette(toLength(count), locked, rnd), locked)])

\* the catch of an exception thrown while the lock map is parsed
paletteOrError(count, parsed, rnd) ==
    IF parsed.threw THEN err(parsed.message)
    ELSE paletteResponse(count, parsed.value, rnd)

\* case 'generate_palette'
generate_palette(args, rnd) ==
    paletteOrError(clampCount(args),
                   parseLocked(IF Has(args, "locked") THEN args.locked ELSE <<>>), rnd)

\* getHarmonies of harmony.ts, after section 4.5 of the specification: the
\* five hue relationships in their fixed order, saturation and lightness
\* held from the base colour, the offsets summed modulo 360
HarmonyOffsets ==
    << [type |-> "complementary", offsets |-> <<0, 180>>],
       [type |-> "analogous", offsets |-> <<330, 0, 30>>],
       [type |-> "triadic", offsets |-> <<0, 120, 240>>],
       [type |-> "split-complementary", offsets |-> <<0, 150, 210>>],
       [type |-> "tetradic", offsets |-> <<0, 90, 180, 270>>] >>

harmoniesOf(hsl) ==
    [k \in 1..Len(HarmonyOffsets) |->
        [type |-> HarmonyOffsets[k].type,
         label |-> HarmonyOffsets[k].type,
         colors |-> [j \in 1..Len(HarmonyOffsets[k].offsets) |->
                        hslToHex([h |-> (hsl.h + HarmonyOffsets[k].offsets[j]) % 360,
                                  s |-> hsl.s, l |-> hsl.l])]]]

getHarmonies(hex) == harmoniesOf(hexToHsl(hex))

\* getHarmonies(hex).map(h => ({ type, label, colors: h.colors.map(colorInfo) }))
harmonyInfos(harmonies) ==
    [k \in 1..Len(harmonies) |->
        [type |-> harmonies[k].type,
         label |-> harmonies[k].label,
         colors |-> [j \in 1..Len(harmonies[k].colors) |->
                        colorInfo(harmonies[k].colors[j])]]]

harmoniesOrError(hex) ==
    IF hex.threw THEN err(hex.message)
    ELSE ok([base |-> colorInfo(hex.value),
             harmonies |-> harmonyInfos(getHarmonies(hex.value))])

\* case 'get_harmonies'
get_harmonies(args) == harmoniesOrError(parseArg(args, "color"))

verdict(result) ==
    IF result.aaa_normal THEN "Excellent - passes AAA for all text"
    ELSE IF result.aa_normal THEN "Good - passes AA for all text"
    ELSE IF result.aa_large
      THEN "Acceptable - passes AA for large text only (18px+ bold or 24px+)"
    ELSE "Fail - insufficient contrast for any text use"

\* index.ts 204-215
contrastResponse(fg, bg, result) ==
    ok([foreground |-> colorInfo(fg), background |-> colorInfo(bg),
        verdict |-> verdict(result)] @@ result)

contrastOrError(fg, bg) ==
    IF fg.threw THEN err(fg.message)
    ELSE IF bg.threw THEN err(bg.message)
    ELSE contrastResponse(fg.value, bg.value, checkContrast(fg.value, bg.value))

\* case 'check_contrast'
check_contrast(args) ==
    contrastOrError(parseArg(args, "foreground"), parseArg(args, "background"))

\* index.ts 221-227
textColorResponse(bg, textHex) ==
    ok([background |-> colorInfo(bg),
        recommended_text |-> colorInfo(textHex),
        contrast_ratio |-> toFixed2(contrastRatio(hexToRgb(bg), hexToRgb(textHex)))])

textColorOrError(bg) ==
    IF bg.threw THEN err(bg.message)
    ELSE textColorResponse(bg.value, textColorForBackground(bg.value))

\* case 'suggest_text_color'
suggest_text_color(args) == textColorOrError(parseArg(args, "background"))

convertOrError(hex) ==
    IF hex.threw THEN err(hex.message) ELSE ok(colorInfo(hex.value))

\* case 'convert_color'
convert_color(args) == convertOrError(parseArg(args, "color"))

\* rawColors.map(parseColor): the first element that fails throws
RECURSIVE mapParseColor(_)
prepend(value, rest) ==
    IF rest.threw THEN rest ELSE Return(<<value>> \o rest.value)

consParsed(parsed, rawRest) ==
    IF parsed.threw THEN parsed ELSE prepend(parsed.value, mapParseColor(rawRest))

mapParseColor(rawColors) ==
    IF rawColors = <<>> THEN Return(<<>>)
    ELSE consParsed(parseColor(Head(rawColors)), Tail(rawColors))

\* the pairs (i, j), i < j, in the order of the two nested loops
RECURSIVE pairsFrom(_, _, _)
pairsFrom(i, j, n) ==
    IF i > n THEN <<>>
    ELSE IF j > n THEN pairsFrom(i + 1, i + 2, n)
    ELSE << <<i, j>> >> \o pairsFrom(i, j + 1, n)

\* the element pushed for one pair
pairEntry(hex1, hex2, result) ==
    [pair |-> <<hex1, hex2>>, ratio |-> result.ratio,
     aa_normal |-> result.aa_normal, aa_large |-> result.aa_large]

contrastPairs(hexes, idx) ==
    [k \in 1..Len(idx) |->
        pairEntry(hexes[idx[k][1]], hexes[idx[k][2]],
                  checkContrast(hexes[idx[k][1]], hexes[idx[k][2]]))]

\* hexes.map(hex => ({ color, vs_background, suggested_text }))
onBackgroundOf(hexes, bg) ==
    [i \in 1..Len(hexes) |->
        [color |-> hexes[i],
         vs_background |-> checkContrast(hexes[i], bg),
         suggested_text |-> textColorForBackground(hexes[i])]]

\* the issue strings, kept as the template and the values put into it
lowContrastIssue(p) ==
    [issue |-> "have very low contrast - unusable as text/background pair",
     first |-> p.pair[1], second |-> p.pair[2], ratio |-> p.ratio]

failsAaIssue(ob, bg) ==
    [issue |-> "fails AA for normal text",
     color |-> ob.color, background |-> bg, ratio |-> ob.vs_background.ratio]

NoIssues == << [issue |-> "No accessibility issues found."] >>

\* issues.length > 0 ? issues : ['No accessibility issues found.']
issuesFrom(lowPairs, lowOnBg, bg) ==
    IF Len(lowPairs) + Len(lowOnBg) > 0
      THEN [k \in 1..Len(lowPairs) |-> lowContrastIssue(lowPairs[k])]
               \o [k \in 1..Len(lowOnBg) |-> failsAaIssue(lowOnBg[k], bg)]
    ELSE NoIssues

\* the two loops that collect the issues
collectIssues(pairs, onBackground, bg) ==
    issuesFrom(SelectSeq(pairs, LAMBDA p : ~p.aa_large),
               SelectSeq(onBackground, LAMBDA ob : ~ob.vs_background.aa_normal), bg)

\* index.ts 294-300
analysisResponse(hexes, bg, pairs, onBackground) ==
    ok([colors |-> [i \in 1..Len(hexes) |-> [position |-> i - 1] @@ colorInfo(hexes[i])],
        background |-> colorInfo(bg),
        contrast_pairs |-> pairs,
        on_background |-> onBackground,
        issues |-> collectIssues(pairs, onBackground, bg)])

analysisOf(hexes, bg) ==
    analysisResponse(hexes, bg, contrastPairs(hexes, pairsFrom(1, 2, Len(hexes))),
                     onBackgroundOf(hexes, bg))

analysisOrError(parsed, parsedBg) ==
    IF parsed.threw THEN err(parsed.message)
    ELSE IF parsedBg.threw THEN err(parsedBg.message)
    ELSE analysisOf(parsed.value, parsedBg.value)

\* case 'analyze_palette'
analyze_palette(args) ==
    IF ~Has(args, "colors") \/ Len(args.colors) = 0
      THEN err([text |-> "colors array is required"])
    ELSE analysisOrError(mapParseColor(args.colors),
                         parseColor(IF Has(args, "background") THEN args.background ELSE White))

\* the handler of CallToolRequestSchema: the switch on the tool name inside
\* the try block, whose catch turns every exception into err(message)
callTool(request, rnd) ==
    LET name == request.name
        args == request.args
    IN  CASE name = "generate_palette" -> generate_palette(args, rnd)
          [] name = "get_harmonies" -> get_harmonies(args)
          [] name = "check_contrast" -> check_contrast(args)
          [] name = "suggest_text_color" -> suggest_text_color(args)
          [] name = "convert_color" -> convert_color(args)
          [] name = "analyze_palette" -> analyze_palette(args)
          [] OTHER -> err([unknownTool |-> name])

----------------------------------------------------------------------------
\* The handler under test: one request is handled again and again.

\* colour arguments: "#6CE", "rgb(0, 0, 0)", "#777" and the unparsable "red"
ToolColors ==
    { <<"#", "6", "C", "E">>,
      <<"r", "g", "b", "(", "0", ",", " ", "0", ",", " ", "0", ")">>,
      <<"#", "7", "7", "7">>,
      <<"r", "e", "d">> }

\* count arguments, in halves: 0, 1.5, 2, 2.5, 3, 8, 8.5 and 10
ToolCounts == {0, 3, 4, 5, 6, 8 * CountUnit, 8 * CountUnit + 1, 10 * CountUnit}

\* lock maps over the positions 0, 1 and MaxLockKey (never below count)
ToolLockKeys == {keyOf(0), keyOf(1), keyOf(MaxLockKey)}

ToolLockValues == { <<"#", "6", "C", "E">>, <<"#", "7", "7", "7">>, <<"r", "e", "d">> }

ToolLockMaps == UNION {[K -> ToolLockValues] : K \in SUBSET ToolLockKeys}

\* the longest colors array of analyze_palette
MaxColors == 2

ColorArrays == UNION {[1..n -> ToolColors] : n \in 0..MaxColors}

ToolNames ==
    {"generate_palette", "get_harmonies", "check_contrast", "suggest_text_color",
     "convert_color", "analyze_palette", "delete_palette"}

ToolArgs(name) ==
    CASE name = "generate_palette" ->
            [count : ToolCounts, locked : ToolLockMaps] \cup [count : ToolCounts]
                \cup [locked : ToolLockMaps] \cup {<<>>}
      [] name \in {"get_harmonies", "convert_color"} ->
            [color : ToolColors] \cup {<<>>}
      [] name = "check_contrast" ->
            [foreground : ToolColors, background : ToolColors]
                \cup [foreground : ToolColors] \cup [background : ToolColors] \cup {<<>>}
      [] name = "suggest_text_color" ->
            [background : ToolColors] \cup {<<>>}
      [] name = "analyze_palette" ->
            [colors : ColorArrays, background : ToolColors] \cup [colors : ColorArrays]
                \cup [background : ToolColors] \cup {<<>>}
      [] OTHER -> [color : ToolColors] \cup {<<>>}

\* the values of Math.random() in one call: every generated slot draws the
\* same pair
ToolDraws ==
    {[start |-> u, slots |-> [i \in 1..8 |-> d]] : u \in StartDraws, d \in SlotDraws}

InitTool ==
    /\ fn = "input"
    /\ \E name \in ToolNames : arg \in [name : {name}, args : ToolArgs(name)]
    /\ ret = Nil

\* one CallToolRequest is handled
CallTool ==
    /\ fn \in {"input", "callTool"}
    /\ \E rnd \in ToolDraws : ret' = callTool(arg, rnd)
    /\ fn' = "callTool"
    /\ UNCHANGED arg

NextTool == CallTool

SpecTool == InitTool /\ [][NextTool]_vars

\* C11: a generate_palette call that succeeds reports a count between 2 and
\* 8, 5 when no count was supplied, that is the number of colours returned;
\* a colour is flagged locked exactly when the supplied lock map has an entry
\* for its position, and the hex of a locked colour is parseColor of that
\* entry.
C11_CountAndLocks ==
    (fn = "callTool" /\ arg.name = "generate_palette" /\ ~ret.isError) =>
        LET colors == ret.data.colors
            hasEntry(i) == Has(arg.args, "locked") /\ keyOf(i - 1) \in DOMAIN arg.args.locked
        IN  /\ ret.data.count \in (2 * CountUnit)..(8 * CountUnit)
            /\ ~Has(arg.args, "count") => ret.data.count = 5 * CountUnit
            /\ ret.data.count = Len(colors) * CountUnit
            /\ \A i \in 1..Len(colors) :
                  /\ colors[i].position = i - 1
                  /\ colors[i].locked <=> hasEntry(i)
                  /\ hasEntry(i) =>
                        colors[i].hex = parseColor(arg.args.locked[keyOf(i - 1)]).value

\* one colour argument as the handler meets it
Given(text) == [given |-> TRUE, text |-> text]

Missing == [given |-> FALSE]

ArgOf(args, key) == IF Has(args, key) THEN Given(args[key]) ELSE Missing

KnownTools ==
    {"generate_palette", "get_harmonies", "check_contrast", "suggest_text_color",
     "convert_color", "analyze_palette"}

NoColors(request) ==
    request.name = "analyze_palette"
        /\ (~Has(request.args, "colors") \/ request.args.colors = <<>>)

\* every colour argument of a call, in the order of the handler's parseColor
\* calls
ColourArgs(request) ==
    LET args == request.args
        raw == IF Has(args, "locked") THEN args.locked ELSE <<>>
        keys == entries(raw)
    IN  CASE request.name = "generate_palette" ->
                [k \in 1..Len(keys) |-> Given(raw[keys[k]])]
          [] request.name \in {"get_harmonies", "convert_color"} ->
                <<ArgOf(args, "color")>>
          [] request.name = "check_contrast" ->
                <<ArgOf(args, "foreground"), ArgOf(args, "background")>>
          [] request.name = "suggest_text_color" ->
                <<ArgOf(args, "background")>>
          [] request.name = "analyze_palette" ->
                (IF Has(args, "colors")
                   THEN [k \in 1..Len(args.colors) |-> Given(args.colors[k])]
                   ELSE <<>>)
                \o (IF Has(args, "background") THEN <<Given(args.background)>> ELSE <<>>)
          [] OTHER -> <<>>

Unparsable(a) == a.given /\ parseColor(a.text).threw

\* C14: every call returns a success response with the data or an error
\* response with nothing but the message.  A call with a colour argument
\* that does not parse returns an error response, and unless a check the
\* handler makes earlier has failed (the empty or missing colors array, a
\* colour argument that is missing), the message is the ParseError message
\* of the first such argument; a call whose colour arguments all parse
\* succeeds (get_harmonies then returns what getHarmonies lets it return).
\* An unknown tool name and an empty or missing colors array of
\* analyze_palette return error responses.
C14_ErrorsReturned ==
    fn = "callTool" =>
        LET L == ColourArgs(arg)
            bad == {k \in 1..Len(L) : ~L[k].given \/ Unparsable(L[k])}
            first == CHOOSE k \in bad : \A n \in bad : k <= n
        IN  /\ ret.isError \in BOOLEAN
            /\ DOMAIN ret = (IF ret.isError THEN {"isError", "error"} ELSE {"isError", "data"})
            /\ (\E k \in 1..Len(L) : Unparsable(L[k])) => ret.isError
            /\ arg.name \notin KnownTools => ret = err([unknownTool |-> arg.name])
            /\ NoColors(arg) => ret = err([text |-> "colors array is required"])
            /\ (arg.name \in KnownTools /\ ~NoColors(arg)) =>
                  IF bad = {} THEN arg.name # "get_harmonies" => ~ret.isError
                  ELSE /\ ret.isError
                       /\ L[first].given => ret.error = parseColor(L[first].text).message

\* C14 witness: a generate_palette call for 2 colours whose lock map holds a
\* colour at position 0 and the unparsable "red" at position MaxLockKey has
\* returned the error response with the ParseError message of "red".
C14_Witness ==
    /\ fn = "callTool"
    /\ arg.name = "generate_palette"
    /\ Has(arg.args, "count") /\ arg.args.count = 2 * CountUnit
    /\ Has(arg.args, "locked")
    /\ DOMAIN arg.args.locked = {keyOf(0), keyOf(MaxLockKey)}
    /\ ~parseColor(arg.args.locked[keyOf(0)]).threw
    /\ arg.args.locked[keyOf(MaxLockKey)] = <<"r", "e", "d">>
    /\ ret.isError
    /\ ret.error = parseColor(<<"r", "e", "d">>).message

----------------------------------------------------------------------------
\* generatePalette step by step: the start hue is drawn, then the callback of
\* Array.from runs once for every index.  While the call runs, ret holds its
\* local state: the start hue and the hue cursor (in millionths of a degree),
\* the index i of the next callback, the elements out returned so far, the
\* HSL colour built for every generated slot (Nil for a locked one), and the
\* values rnd that Math.random() returned.

\* hue = (hue + 360 * GOLDEN_RATIO_CONJUGATE) % 360
nextHue(hue) == (hue + 360 * GOLDEN_RATIO_CONJUGATE) % (360 * RandomUnit)

\* let hue = Math.random() * 360
StartPalette ==
    /\ fn = "input"
    /\ \E u \in StartDraws :
          ret' = [start |-> u * 360, hue |-> u * 360, i |-> 0, out |-> <<>>,
                  built |-> <<>>, rnd |-> [start |-> u, slots |-> <<>>]]
    /\ fn' = "Array.from"
    /\ UNCHANGED arg

\* a locked slot on which the cursor advances as on a generated one
SlotLockedAdvancing ==
    /\ fn = "Array.from"
    /\ ret.i < arg.count
    /\ isTruthy(arg.locked, keyOf(ret.i))
    /\ ret' = [ret EXCEPT !.i = @ + 1,
                          !.hue = nextHue(@),
                          !.out = Append(@, arg.locked[keyOf(ret.i)]),
                          !.built = Append(@, Nil),
                          !.rnd.slots = Append(@, <<0, 0>>)]
    /\ UNCHANGED <<fn, arg>>

\* the callback at a locked index: if (locked[key]) return locked[key]
SlotLocked ==
    /\ fn = "Array.from"
    /\ ret.i < arg.count
    /\ isTruthy(arg.locked, keyOf(ret.i))
    /\ ret' = [ret EXCEPT !.i = @ + 1,
                          !.out = Append(@, arg.locked[keyOf(ret.i)]),
                          !.built = Append(@, Nil),
                          !.rnd.slots = Append(@, <<0, 0>>)]
    /\ UNCHANGED <<fn, arg>>

\* the callback at any other index: the cursor advances, s and l are drawn
SlotGenerated ==
    /\ fn = "Array.from"
    /\ ret.i < arg.count
    /\ ~isTruthy(arg.locked, keyOf(ret.i))
    /\ \E d \in SlotDraws :
          LET hue == nextHue(ret.hue)
              s == Round(55 * RandomUnit + d[1] * 30, RandomUnit)
              l == Round(45 * RandomUnit + d[2] * 25, RandomUnit)
              hsl == [h |-> Round(hue, RandomUnit), s |-> s, l |-> l]
          IN  ret' = [ret EXCEPT !.i = @ + 1,
                                 !.hue = hue,
                                 !.out = Append(@, hslToHex(hsl)),
                                 !.built = Append(@, hsl),
                                 !.rnd.slots = Append(@, d)]
    /\ UNCHANGED <<fn, arg>>

\* Array.from returns after the callback of the last index
ReturnPalette ==
    /\ fn = "Array.from"
    /\ ret.i >= arg.count
    /\ fn' = "return"
    /\ UNCHANGED <<arg, ret>>

NextSteps == StartPalette \/ SlotLocked \/ SlotGenerated \/ ReturnPalette

SpecSteps == InitPalette /\ [][NextSteps]_vars

\* the array returned step by step is the one generatePalette returns for
\* the same values of Math.random()
StepsReturnGeneratePalette ==
    fn = "return" => ret.out = generatePalette(arg.count, arg.locked, ret.rnd)

\* the number of generated slots among the first j
Generated(j) == Cardinality({n \in 1..j : ret.built[n] # Nil})

\* C12: the hue cursor has advanced by 360 x 0.618033988749895 modulo 360
\* once for every generated slot and never for a locked one: the k-th
\* generated slot is built from hue (startHue + k x 222.49...) mod 360
\* rounded, wherever the locked slots lie.
C12_HueCursor ==
    fn \in {"Array.from", "return"} =>
        LET turn == 360 * RandomUnit
            step == 360 * GOLDEN_RATIO_CONJUGATE
            hueOf(k) == (ret.start + k * step) % turn
        IN  /\ ret.hue = hueOf(Generated(ret.i))
            /\ \A j \in 1..ret.i :
                  ret.built[j] # Nil =>
                      ret.built[j].h = Round(hueOf(Generated(j)), RandomUnit)

\* C12 witness: the returned palette has its slot 2 generated after a locked
\* slot 1 and a generated slot 0, from the cursor after two steps.
C12_Witness ==
    /\ fn = "return"
    /\ arg.count = 3
    /\ ret.built[1] # Nil
    /\ ret.built[2] = Nil
    /\ ret.built[3] # Nil
    /\ ret.hue = (ret.start + 2 * 360 * GOLDEN_RATIO_CONJUGATE) % (360 * RandomUnit)
    /\ ret.hue # ret.start

\* C13: every HSL colour built for a generated slot has a hue from 0 to 359,
\* a saturation from 55 to 85 and a lightness from 45 to 70, and the element
\* emitted for it is "#" and six lowercase hex digits.
C13_GeneratedInRange ==
    fn \in {"Array.from", "return"} =>
        \A j \in 1..ret.i :
            ret.built[j] # Nil =>
                /\ ret.built[j].h \in 0..359
                /\ ret.built[j].s \in 55..85
                /\ ret.built[j].l \in 45..70
                /\ IsCanonicalHex(ret.out[j])

====
